---- MODULE Spec2Model ----
(***************************************************************************)
(* A model of jira_remaining_points.py: the HTTP client (get, the two       *)
(* pagination loops), the status-history reconstruction, the remaining-     *)
(* points rule and main's aggregation and output.                           *)
(*                                                                          *)
(* Three specifications share the definitions below:                        *)
(*   SpecCalc    one issue's history and a query day (lines 86-110,         *)
(*               139-158), inputs drawn freely from bounded sets;           *)
(*   SpecClient  get / get_sprint / list_sprint_issues /                    *)
(*               get_issue_with_changelog stepped request by request        *)
(*               against a nondeterministic server;                         *)
(*   Spec        main (lines 112-193) from configuration to the two files.  *)
(*                                                                          *)
(* Dates are day numbers 1..MaxDay.  A raw timestamp is a natural number    *)
(* counting half-days (day d is 2d and 2d+1), so that distinct timestamps   *)
(* fall on one calendar date; Malformed stands for a string that            *)
(* fromisoformat rejects, None for an absent value.                         *)
(* Story points are naturals (float rounding is not modelled).              *)
(***************************************************************************)
EXTENDS Integers, Sequences, FiniteSets, TLC

\* ---------------------------------------------------------------- bounds
MaxDay == 2
MaxEvents == 2
MaxChanges == 1
MaxIssues == 2
MaxPage == 2

\* ------------------------------------------------------------- constants
UAT_STATUS_NAME == "UAT"
DefaultTracked == {"To Do", "In Progress", "Code Review"}
None == 0
Malformed == 0 - 1

\* No sprint: None, or a body that is an empty object (both are falsy).
NoSprint == [id |-> None, startDate |-> None, endDate |-> None, completeDate |-> None]
Days == 1..MaxDay
Statuses == {"To Do", UAT_STATUS_NAME, "Done"}
Timestamps == 2..(2 * MaxDay + 1)
Midnight(d) == 2 * d

VARIABLES
    \* configuration (module level, lines 7-16)
    SPRINT_ID, BOARD_ID, TRACK_STATUS_NAMES, TREAT_UAT_AS_DONE_PERMANENT,
    \* main
    pc, sprint, sprint_start, sprint_end, issue_keys, key, issue, rows, by_day, files,
    \* one issue, one day (locals of main's loop body)
    initial_status, histories, sp, day, hit_uat_on, status_today, remain,
    \* the client: which function runs and where, its locals
    op, cpc, issues, start_at, total, max_results, result,
    \* get(): position, requests sent, status codes received, backoff taken
    gpc, nreq, codes, slept,
    \* the server's data
    srvIssues, srvHist, srvCreated

cfgVars == <<SPRINT_ID, BOARD_ID, TRACK_STATUS_NAMES, TREAT_UAT_AS_DONE_PERMANENT>>
mainVars == <<pc, sprint, sprint_start, sprint_end, issue_keys, key, issue, rows, by_day, files>>
calcVars == <<initial_status, histories, sp, day, hit_uat_on, status_today, remain>>
clientVars == <<op, cpc, issues, start_at, total, max_results, result>>
getVars == <<gpc, nreq, codes, slept>>
srvVars == <<srvIssues, srvHist, srvCreated>>
vars == <<cfgVars, mainVars, calcVars, clientVars, getVars, srvVars>>

\* ------------------------------------------------------- pure functions

\* iso_to_date: the calendar date of a timestamp; the time of day is dropped.
IsoOk(iso) == iso # Malformed
iso_to_date(iso) == iso \div 2

\* daterange: the days start_date..end_date as a list, empty when start > end.
daterange(start_date, end_date) ==
    IF start_date <= end_date
    THEN [i \in 1..(end_date - start_date + 1) |-> start_date + i - 1]
    ELSE << >>

\* The status items of one history record, as (date, from, to) tuples.
RECURSIVE ItemEvents(_, _)
ItemEvents(when, items) ==
    IF items = << >> THEN << >>
    ELSE LET item == Head(items)
             rest == ItemEvents(when, Tail(items))
         IN  IF item.field = "status"
             THEN <<[d |-> iso_to_date(when), from |-> item.fromString, to |-> item.toString]>> \o rest
             ELSE rest

\* Lines 88-93: the events of all records, in source order.
RECURSIVE RawEvents(_)
RawEvents(hs) ==
    IF hs = << >> THEN << >>
    ELSE ItemEvents(Head(hs).created, Head(hs).items) \o RawEvents(Tail(hs))

\* One step of a stable sort: e goes after every element whose date is <= its own.
RECURSIVE InsertByDate(_, _)
InsertByDate(sorted, e) ==
    IF sorted = << >> THEN <<e>>
    ELSE IF Head(sorted).d <= e.d
         THEN <<Head(sorted)>> \o InsertByDate(Tail(sorted), e)
         ELSE <<e>> \o sorted

\* events.sort(key=lambda x: x[0]): list.sort is stable.
SourceOrder(events) == events
RECURSIVE SortByDate(_)
SortByDate(events) ==
    IF events = << >> THEN << >>
    ELSE InsertByDate(SortByDate(SubSeq(events, 1, Len(events) - 1)), events[Len(events)])

\* A history whose timestamps all parse (otherwise iso_to_date raises, line 93).
HistoriesOk(hs) ==
    \A i \in 1..Len(hs) :
        (\E j \in 1..Len(hs[i].items) : hs[i].items[j].field = "status") => IsoOk(hs[i].created)

extract_status_changes(hs) == SortByDate(RawEvents(hs))

RECURSIVE FirstTo(_, _)
FirstTo(events, target) ==
    IF events = << >> THEN None
    ELSE IF Head(events).to = target THEN Head(events).d
         ELSE FirstTo(Tail(events), target)

first_date_reaching_status(hs, target) == FirstTo(extract_status_changes(hs), target)

\* The loop of lines 105-109: apply events while d <= day, stop at the first later one.
RECURSIVE ApplyUntil(_, _, _)
ApplyUntil(current, events, d) ==
    IF events = << >> THEN current
    ELSE IF Head(events).d <= d
         THEN ApplyUntil(Head(events).to, Tail(events), d)
         ELSE current

status_on_date(initial, hs, d) == ApplyUntil(initial, extract_status_changes(hs), d)

UatNeverPermanent(points, initial, hs, hit, d, permanent, tracked) ==
    LET st == status_on_date(initial, hs, d)
    IN  IF hit # None /\ d >= hit /\ st = UAT_STATUS_NAME THEN 0
        ELSE IF st \in tracked THEN points ELSE 0

\* Lines 146-158.  hit is None or a date; a date object is always truthy.
remaining_for_issue(points, initial, hs, hit, d, permanent, tracked) ==
    IF hit # None /\ d >= hit /\ permanent
    THEN 0
    ELSE LET st == status_on_date(initial, hs, d)
         IN  IF hit # None /\ d >= hit /\ ~permanent
             THEN IF st = UAT_STATUS_NAME THEN 0
                  ELSE IF st \in tracked THEN points ELSE 0
             ELSE IF st \in tracked THEN points ELSE 0

\* ------------------------------------------------------------ SpecCalc
\* One issue's reconstruction for one query day: lines 139 and 146-163.

StatusItems == {[field |-> "status", fromString |-> "To Do", toString |-> t] : t \in Statuses}
OtherItems == {[field |-> "assignee", fromString |-> "ann", toString |-> "bob"]}
\* A record carries one item; the timestamp of a record without a status item is never parsed.
CalcRecords == [created : Timestamps, items : {<<i>> : i \in StatusItems}]
               \cup [created : {Midnight(1)}, items : {<<i>> : i \in OtherItems}]
CalcHistories == UNION {[1..n -> CalcRecords] : n \in 0..MaxEvents}
TrackChoices == {DefaultTracked, {"To Do", UAT_STATUS_NAME}}

ClientIdle ==
    /\ op = "none" /\ cpc = "idle" /\ issues = << >> /\ start_at = 0
    /\ total = 0 /\ max_results = 0 /\ result = << >>
    /\ gpc = "idle" /\ nreq = 0 /\ codes = << >> /\ slept = FALSE
    /\ srvIssues = 0 /\ srvHist = << >> /\ srvCreated = << >>

MainIdle ==
    /\ sprint = NoSprint /\ sprint_start = None /\ sprint_end = None
    /\ issue_keys = << >> /\ key = 0 /\ issue = None /\ rows = << >>
    /\ by_day = << >> /\ files = << >>

CalcIdle ==
    /\ initial_status = "To Do" /\ histories = << >> /\ sp = 0
    /\ day = None /\ hit_uat_on = None /\ status_today = "To Do" /\ remain = 0

InitCalc ==
    /\ pc = "calc"
    /\ SPRINT_ID = TRUE /\ BOARD_ID = FALSE
    /\ TRACK_STATUS_NAMES \in TrackChoices
    /\ TREAT_UAT_AS_DONE_PERMANENT \in BOOLEAN
    /\ initial_status \in Statuses
    /\ histories \in CalcHistories
    /\ sp = 3
    /\ day = None /\ hit_uat_on = None /\ status_today = initial_status /\ remain = 0
    /\ MainIdle /\ ClientIdle

\* The body of `for day in days` for one day that is not skipped.
ComputeDay(d) ==
    /\ pc = "calc"
    /\ day' = d
    /\ hit_uat_on' = first_date_reaching_status(histories, UAT_STATUS_NAME)
    /\ remain' = remaining_for_issue(sp, initial_status, histories, hit_uat_on', d,
                                     TREAT_UAT_AS_DONE_PERMANENT, TRACK_STATUS_NAMES)
    /\ status_today' = status_on_date(initial_status, histories, d)
    /\ UNCHANGED <<initial_status, histories, sp>>
    /\ UNCHANGED <<cfgVars, mainVars, clientVars, getVars, srvVars>>

NextCalc == \E d \in Days : ComputeDay(d)

SpecCalc == InitCalc /\ [][NextCalc]_vars

\* --- C3 ---------------------------------------------------------------
\* The status events with date <= d, as indices into the source-order list.
UpTo(ev, d) == {i \in 1..Len(ev) : ev[i].d <= d}
\* The last of them when ordered by date, same-date events in source order.
LastIndex(ev, d) ==
    CHOOSE i \in UpTo(ev, d) :
        \A j \in UpTo(ev, d) : ev[j].d < ev[i].d \/ (ev[j].d = ev[i].d /\ j <= i)
LastEventTo(initial, ev, d) ==
    IF UpTo(ev, d) = {} THEN initial ELSE ev[LastIndex(ev, d)].to

\* C3: status_on_date returns the to-status of the last status event dated
\* on or before the query day (date ascending, same-date events in source
\* order), and the initial status when there is none.
C3_StatusOnDate ==
    (pc = "calc" /\ day # None) =>
        status_today = LastEventTo(initial_status, RawEvents(histories), day)

\* Two status events on the query day's date, given latest-time first, with
\* different targets: the second one in source order decides.
C3_Witness ==
    /\ pc = "calc" /\ day # None
    /\ Len(histories) = 2
    /\ histories[1].items[1].field = "status" /\ histories[2].items[1].field = "status"
    /\ histories[1].created > histories[2].created
    /\ iso_to_date(histories[1].created) = iso_to_date(histories[2].created)
    /\ iso_to_date(histories[1].created) <= day
    /\ histories[1].items[1].toString # histories[2].items[1].toString
    /\ status_today = histories[2].items[1].toString
    /\ status_today # initial_status

\* --- C2 ---------------------------------------------------------------
UatDates(hs) ==
    LET ev == RawEvents(hs)
    IN  {ev[i].d : i \in {j \in 1..Len(ev) : ev[j].to = UAT_STATUS_NAME}}
ReachedUatBy(hs, d) == \E u \in UatDates(hs) : u <= d
CalculatorRule(points, status, hs, d, permanent, tracked) ==
    IF ReachedUatBy(hs, d) /\ permanent THEN 0
    ELSE IF ReachedUatBy(hs, d) /\ ~permanent /\ status = UAT_STATUS_NAME THEN 0
    ELSE IF status \in tracked THEN points
    ELSE 0

\* C2: the remaining value of an issue on a day is the calculator rule: 0
\* from the first UAT date on when UAT is permanent; otherwise 0 while the
\* status of the day is UAT (from the UAT date on), else the story points
\* when the status of the day is tracked, else 0.
C2_RemainingRule ==
    (pc = "calc" /\ day # None) =>
        remain = CalculatorRule(sp, status_today, histories, day,
                                TREAT_UAT_AS_DONE_PERMANENT, TRACK_STATUS_NAMES)

\* Permanent UAT, the issue reopened to a tracked status after reaching UAT.
C2_Witness ==
    /\ pc = "calc" /\ day # None
    /\ TREAT_UAT_AS_DONE_PERMANENT
    /\ hit_uat_on # None /\ day >= hit_uat_on
    /\ status_today \in TRACK_STATUS_NAMES /\ status_today # UAT_STATUS_NAME
    /\ sp > 0 /\ remain = 0

\* ---------------------------------------------------------- SpecClient
\* The server's changelog of an issue created on day c: change i happens i
\* days after creation (the last day at the latest), To Do -> UAT -> To Do
\* (reopened) -> Done -> UAT ...; each record names the status it leaves.
Min(a, b) == IF a <= b THEN a ELSE b
ScriptTo(i) == IF i % 3 = 1 THEN UAT_STATUS_NAME ELSE IF i % 3 = 2 THEN "To Do" ELSE "Done"
ScriptFrom(i) == IF i = 1 THEN "To Do" ELSE ScriptTo(i - 1)
ChangeRecord(c, i) ==
    [id |-> i, created |-> Midnight(Min(c + i, MaxDay)),
     items |-> <<[field |-> "status", fromString |-> ScriptFrom(i), toString |-> ScriptTo(i)]>>]
Changelog(c, n) == [i \in 1..n |-> ChangeRecord(c, i)]

StatusCodes == {200, 404, 429, 500}

InitClient ==
    /\ pc = "client"
    /\ SPRINT_ID = TRUE /\ BOARD_ID = FALSE
    /\ TRACK_STATUS_NAMES = DefaultTracked
    /\ TREAT_UAT_AS_DONE_PERMANENT = TRUE
    /\ MainIdle /\ CalcIdle
    /\ op = "none" /\ cpc = "idle" /\ issues = << >> /\ start_at = 0
    /\ total = 0 /\ max_results = 0 /\ result = << >>
    /\ gpc = "idle" /\ nreq = 0 /\ codes = << >> /\ slept = FALSE
    /\ srvIssues \in 0..MaxIssues
    /\ srvHist \in {Changelog(1, n) : n \in 0..MaxEvents}
    /\ srvCreated = << >>

\* A call of get(url, params) begins: nothing sent yet.
EnterGet ==
    /\ gpc' = "call" /\ nreq' = 0 /\ codes' = << >> /\ slept' = FALSE

\* Line 29.
ShouldRetryAny(code) == code # 200
ShouldRetry(code) == code = 429

\* Line 28: the first request and its response.
GetRequest ==
    /\ gpc = "call"
    /\ nreq' = nreq + 1
    /\ \E code \in StatusCodes :
        /\ codes' = Append(codes, code)
        /\ gpc' = IF ShouldRetry(code) THEN "sleep" ELSE "check"
    /\ UNCHANGED <<slept, cfgVars, mainVars, calcVars, clientVars, srvVars>>

\* Line 30: time.sleep(5).
GetSleep ==
    /\ gpc = "sleep"
    /\ slept' = TRUE
    /\ gpc' = "retry"
    /\ UNCHANGED <<nreq, codes, cfgVars, mainVars, calcVars, clientVars, srvVars>>

\* Line 31: the second request and its response.
GetRetry ==
    /\ gpc = "retry"
    /\ nreq' = nreq + 1
    /\ \E code \in StatusCodes : codes' = Append(codes, code)
    /\ gpc' = "check"
    /\ UNCHANGED <<slept, cfgVars, mainVars, calcVars, clientVars, srvVars>>

\* Lines 32-33: raise_for_status on the last response, else its JSON body.
GetCheck ==
    /\ gpc = "check"
    /\ gpc' = IF codes[Len(codes)] = 200 THEN "ok" ELSE "raised"
    /\ UNCHANGED <<nreq, codes, slept, cfgVars, mainVars, calcVars, clientVars, srvVars>>

CallerReady == pc = "client" /\ cpc \in {"idle", "returned", "raised"}

\* get_sprint, line 39.
Call_get_sprint ==
    /\ CallerReady
    /\ op' = "get_sprint" /\ cpc' = "L39"
    /\ issues' = << >> /\ start_at' = 0 /\ total' = 0 /\ max_results' = 0 /\ result' = << >>
    /\ histories' = << >>
    /\ EnterGet
    /\ UNCHANGED <<cfgVars, mainVars, srvVars, initial_status, sp, day, hit_uat_on, status_today, remain>>

Return_get_sprint ==
    /\ cpc = "L39" /\ gpc = "ok"
    /\ result' = <<"sprint">>
    /\ cpc' = "returned" /\ gpc' = "idle"
    /\ UNCHANGED <<op, issues, start_at, total, max_results, nreq, codes, slept>>
    /\ UNCHANGED <<cfgVars, mainVars, calcVars, srvVars>>

\* An HTTPError leaves get and the function that called it.
Raise ==
    /\ pc = "client" /\ gpc = "raised" /\ cpc \in {"L39", "L45", "L54", "L62"}
    /\ cpc' = "raised" /\ gpc' = "idle"
    /\ UNCHANGED <<op, issues, start_at, total, max_results, result, nreq, codes, slept>>
    /\ UNCHANGED <<cfgVars, mainVars, calcVars, srvVars>>

\* list_sprint_issues, lines 42-43 and the first get of line 45.
Call_list_sprint_issues ==
    /\ CallerReady
    /\ op' = "list_sprint_issues" /\ cpc' = "L45"
    /\ issues' = << >> /\ start_at' = 0 /\ total' = 0 /\ max_results' = 0 /\ result' = << >>
    /\ histories' = << >>
    /\ EnterGet
    /\ UNCHANGED <<cfgVars, mainVars, srvVars, initial_status, sp, day, hit_uat_on, status_today, remain>>

\* The sprint's issues are keyed 1..srvIssues in server order.  A page of the
\* issue search holds the maxResults issues from startAt on, or those left.
IssuePage(startAt, maxResults) ==
    [i \in 1..(Min(startAt + maxResults, srvIssues) - Min(startAt, srvIssues)) |-> [key |-> startAt + i]]

\* Line 49.
NextStartAtRequested(start, maxResults) == start + 50
NextStartAt(start, maxResults) == start + maxResults

\* Lines 46-50 for one page, up to the next get or the return.
ListPage ==
    /\ cpc = "L45" /\ gpc = "ok"
    /\ \E m \in 1..MaxPage :
        LET data == [issues |-> IssuePage(start_at, m), maxResults |-> m, total |-> srvIssues]
            all == issues \o data.issues
        IN  /\ issues' = all
            /\ max_results' = data.maxResults /\ total' = data.total
            /\ IF start_at + data.maxResults >= data.total
               THEN /\ result' = [i \in 1..Len(all) |-> all[i].key]
                    /\ cpc' = "returned" /\ gpc' = "idle"
                    /\ UNCHANGED <<start_at, nreq, codes, slept>>
               ELSE /\ start_at' = NextStartAt(start_at, data.maxResults)
                    /\ EnterGet
                    /\ UNCHANGED <<cpc, result>>
    /\ UNCHANGED <<op, cfgVars, mainVars, calcVars, srvVars>>

\* get_issue_with_changelog: the get of line 54.
Call_get_issue_with_changelog ==
    /\ CallerReady
    /\ op' = "get_issue_with_changelog" /\ cpc' = "L54"
    /\ issues' = << >> /\ start_at' = 0 /\ total' = 0 /\ max_results' = 0 /\ result' = << >>
    /\ histories' = << >>
    /\ EnterGet
    /\ UNCHANGED <<cfgVars, mainVars, srvVars, initial_status, sp, day, hit_uat_on, status_today, remain>>

\* How many records a changelog page at offset a with reported size m may
\* carry: at least one when any is left, at most m and at most those left.
PageCounts(a, m) ==
    LET left == IF a < Len(srvHist) THEN Len(srvHist) - a ELSE 0
    IN  IF left = 0 THEN {0} ELSE 1..Min(m, left)

\* The loop test of line 60, then line 61 and the get of line 62, or line 66.
ChangelogLoop(hs, start, maxResults, tot) ==
    /\ histories' = hs /\ max_results' = maxResults /\ total' = tot
    /\ IF start + maxResults < tot
       THEN /\ start_at' = start + maxResults
            /\ cpc' = "L62"
            /\ EnterGet
            /\ UNCHANGED result
       ELSE /\ result' = hs
            /\ cpc' = "returned" /\ gpc' = "idle"
            /\ UNCHANGED <<start_at, nreq, codes, slept>>

\* Lines 55-59: the changelog embedded in the issue resource.
IssueFirstPage ==
    /\ cpc = "L54" /\ gpc = "ok"
    /\ \E m \in 1..MaxPage : \E k \in PageCounts(0, m) :
        LET changelog == [histories |-> SubSeq(srvHist, 1, k), startAt |-> 0,
                          maxResults |-> m, total |-> Len(srvHist)]
        IN  ChangelogLoop(changelog.histories, changelog.startAt,
                          changelog.maxResults, changelog.total)
    /\ UNCHANGED <<op, issues, cfgVars, mainVars, srvVars>>
    /\ UNCHANGED <<initial_status, sp, day, hit_uat_on, status_today, remain>>

\* Lines 63-65: one continuation page.
ChangelogPage ==
    /\ cpc = "L62" /\ gpc = "ok"
    /\ \E m \in 1..MaxPage : \E k \in PageCounts(start_at, m) :
        LET page == [values |-> SubSeq(srvHist, start_at + 1, start_at + k),
                     maxResults |-> m, total |-> Len(srvHist)]
        IN  ChangelogLoop(histories \o page.values, start_at, page.maxResults, page.total)
    /\ UNCHANGED <<op, issues, cfgVars, mainVars, srvVars>>
    /\ UNCHANGED <<initial_status, sp, day, hit_uat_on, status_today, remain>>

NextClient ==
    \/ Call_get_sprint
    \/ Return_get_sprint
    \/ Call_list_sprint_issues
    \/ ListPage
    \/ Call_get_issue_with_changelog
    \/ IssueFirstPage
    \/ ChangelogPage
    \/ GetRequest
    \/ GetSleep
    \/ GetRetry
    \/ GetCheck
    \/ Raise

SpecClient == InitClient /\ [][NextClient]_vars

\* --- C7 ---------------------------------------------------------------
GetAnswered == gpc \in {"check", "ok", "raised"}

\* C7: within one call of get a second request is sent exactly when the
\* first response is 429, and only after the backoff wait; there is never a
\* third; the call fails exactly when its last response is not a success, so
\* any other first failure fails at once and a failed retry fails the call.
C7_RetryOnce ==
    /\ nreq <= 2
    /\ Len(codes) <= nreq
    /\ nreq = 2 => (codes[1] = 429 /\ slept)
    /\ (GetAnswered /\ codes[1] = 429) => nreq = 2
    /\ (GetAnswered /\ codes[1] # 429) => nreq = 1
    /\ gpc = "ok" => codes[nreq] = 200
    /\ gpc = "raised" => codes[nreq] # 200
    /\ (gpc = "raised" /\ nreq = 1) => codes[1] \notin {200, 429}

\* A call throttled twice: two requests, the wait between them, failure.
C7_Witness ==
    /\ gpc = "raised" /\ nreq = 2 /\ slept
    /\ codes = <<429, 429>>

\* --- C9 ---------------------------------------------------------------
\* C9: whenever get_issue_with_changelog returns, the accumulated history
\* holds every record of the issue's changelog, each once, whatever page
\* sizes the server chose and however many records each page carried.
C9_FullHistory ==
    (op = "get_issue_with_changelog" /\ cpc = "returned") =>
        /\ Len(result) = Len(srvHist)
        /\ result = srvHist

\* --- C10 --------------------------------------------------------------
\* C10: when list_sprint_issues returns it has the key of every issue of the
\* sprint exactly once, in server order, for any page size and total.
C10_AllKeys ==
    (op = "list_sprint_issues" /\ cpc = "returned") =>
        result = [i \in 1..srvIssues |-> i]

\* A listing that took more than one page.
C10_Witness ==
    /\ op = "list_sprint_issues" /\ cpc = "returned"
    /\ start_at > 0 /\ srvIssues >= 2
    /\ Len(result) = srvIssues

\* ------------------------------------------------------------ Spec (main)
\* The sprint resource: a timeboxed sprint has startDate and endDate, a
\* closed one may carry completeDate instead; any date may be unparseable.
SprintDates == {Midnight(d) : d \in Days}
SprintResources ==
    [id : {1}, startDate : {None, Malformed} \cup SprintDates,
     endDate : {Malformed} \cup SprintDates, completeDate : {None}]
    \cup [id : {1}, startDate : SprintDates,
          endDate : {None}, completeDate : {None, Midnight(MaxDay)}]

\* Lines 80-84.  `a or b` is b when a is absent.
SprintEd(s) == IF s.endDate # None THEN s.endDate ELSE s.completeDate
SprintHasDates(s) == s.startDate # None /\ SprintEd(s) # None
sprint_date_bounds(s) == <<iso_to_date(s.startDate), iso_to_date(SprintEd(s))>>

\* Lines 130-135: absent or unparseable points count as 0.
PointsValues == {[kind |-> "none", val |-> 0], [kind |-> "num", val |-> 3],
                 [kind |-> "str", val |-> 0]}
ParsePoints(raw) == IF raw.kind = "num" THEN raw.val ELSE 0

\* The status the issue resource reports: the one the issue is in now.
CurrentStatus(n) == IF n = 0 THEN "To Do" ELSE ScriptTo(n)

\* The issue resource of an issue created on day c that has changed n times.
IssueResource(k, c, n, raw, badCreated, badHistory) ==
    [key |-> k,
     fields |-> [status |-> [name |-> CurrentStatus(n)],
                 created |-> IF badCreated THEN Malformed ELSE Midnight(c),
                 points |-> raw],
     histories |-> [i \in 1..n |-> IF badHistory /\ i = 1
                                   THEN [ChangeRecord(c, i) EXCEPT !.created = Malformed]
                                   ELSE ChangeRecord(c, i)]]

\* Line 143.
SkippedNever(d, created_date) == FALSE
Skipped(d, created_date) == d < created_date

\* Lines 141-166 for the days ds, in order.
RECURSIVE IssueRows(_, _, _, _, _, _, _, _, _)
IssueRows(k, points, initial, hs, created_date, hit, ds, permanent, tracked) ==
    IF ds = << >> THEN << >>
    ELSE LET d == Head(ds)
             rest == IssueRows(k, points, initial, hs, created_date, hit, Tail(ds), permanent, tracked)
         IN  IF Skipped(d, created_date) THEN rest
             ELSE <<[date |-> d, issue |-> k,
                     status |-> status_on_date(initial, hs, d),
                     story_points |-> points,
                     remaining_for_issue |->
                         remaining_for_issue(points, initial, hs, hit, d, permanent, tracked)]>>
                  \o rest

\* Lines 174-175: setdefault, then add.
AddDayOverwrite(by, r) == (r.date :> r.remaining_for_issue) @@ by
AddDay(by, r) ==
    IF r.date \in DOMAIN by
    THEN [by EXCEPT ![r.date] = @ + r.remaining_for_issue]
    ELSE (r.date :> 0 + r.remaining_for_issue) @@ by

\* Lines 172-175.
RECURSIVE Aggregated(_, _)
Aggregated(by, rs) ==
    IF rs = << >> THEN by ELSE Aggregated(AddDay(by, Head(rs)), Tail(rs))

\* sorted(by_day.keys())
RECURSIVE SortedKeys(_)
SortedKeys(S) ==
    IF S = {} THEN << >>
    ELSE LET m == CHOOSE x \in S : \A y \in S : x <= y
         IN  <<m>> \o SortedKeys(S \ {m})

\* f"{x:.2f}" of a whole number: its digits, then two zero decimals.
Format2(x) == <<x, 0, 0>>

\* Lines 180-182.
TotalsTable(by) ==
    LET ks == SortedKeys(DOMAIN by)
    IN  [i \in 1..Len(ks) |-> [date |-> ks[i], remaining_story_points |-> Format2(by[ks[i]])]]

\* sorted(rows, key=lambda x: (x["date"], x["issue"])), stable.
RowLeq(a, b) == a.date < b.date \/ (a.date = b.date /\ a.issue <= b.issue)
RECURSIVE InsertRow(_, _)
InsertRow(sorted, r) ==
    IF sorted = << >> THEN <<r>>
    ELSE IF RowLeq(Head(sorted), r)
         THEN <<Head(sorted)>> \o InsertRow(Tail(sorted), r)
         ELSE <<r>> \o sorted
RECURSIVE DetailsTable(_)
DetailsTable(rs) ==
    IF rs = << >> THEN << >>
    ELSE InsertRow(DetailsTable(SubSeq(rs, 1, Len(rs) - 1)), rs[Len(rs)])

Init ==
    /\ pc = "start"
    \* a sprint is selected by SPRINT_ID or by BOARD_ID, or not at all
    /\ SPRINT_ID \in BOOLEAN /\ BOARD_ID \in BOOLEAN /\ ~(SPRINT_ID /\ BOARD_ID)
    /\ TRACK_STATUS_NAMES = DefaultTracked
    /\ TREAT_UAT_AS_DONE_PERMANENT \in BOOLEAN
    /\ MainIdle /\ CalcIdle
    /\ op = "none" /\ cpc = "idle" /\ issues = << >> /\ start_at = 0
    /\ total = 0 /\ max_results = 0 /\ result = << >>
    /\ gpc = "idle" /\ nreq = 0 /\ codes = << >> /\ slept = FALSE
    /\ srvIssues \in 0..MaxIssues
    /\ srvHist = << >> /\ srvCreated = << >>

Goto(label) ==
    /\ pc' = label
    /\ UNCHANGED <<sprint, sprint_start, sprint_end, issue_keys, key, issue, rows, by_day, files>>
    /\ UNCHANGED <<cfgVars, calcVars, clientVars, getVars, srvVars>>

\* Lines 18-20, run when the module is loaded.
ConfigGuard ==
    /\ pc = "start"
    /\ IF ~SPRINT_ID /\ ~BOARD_ID THEN Goto("exit2") ELSE Goto("main")

\* Lines 113-117.  makedirs creates the output directory, no file.
\* get_sprint raises, or returns the resource (a body that is an empty
\* object is falsy, like None).
FetchSprint ==
    /\ pc = "main"
    /\ \E s \in IF SPRINT_ID THEN SprintResources \cup {NoSprint} ELSE {NoSprint} :
       \E failed \in IF SPRINT_ID THEN BOOLEAN ELSE {FALSE} :
        IF failed THEN Goto("failed")
        ELSE /\ sprint' = s
             /\ pc' = IF s = NoSprint /\ BOARD_ID THEN "exit2" ELSE "bounds"
             /\ UNCHANGED <<sprint_start, sprint_end, issue_keys, key, issue, rows, by_day, files>>
             /\ UNCHANGED <<cfgVars, calcVars, clientVars, getVars, srvVars>>

\* Line 119: RuntimeError without both dates, ValueError on a malformed one.
SprintBounds ==
    /\ pc = "bounds"
    /\ IF SprintHasDates(sprint) /\ IsoOk(sprint.startDate) /\ IsoOk(SprintEd(sprint))
       THEN /\ sprint_start' = sprint_date_bounds(sprint)[1]
            /\ sprint_end' = sprint_date_bounds(sprint)[2]
            /\ pc' = "list"
            /\ UNCHANGED <<sprint, issue_keys, key, issue, rows, by_day, files>>
            /\ UNCHANGED <<cfgVars, calcVars, clientVars, getVars, srvVars>>
       ELSE Goto("failed")

\* Lines 120-125: list_sprint_issues raises or returns the sprint's keys.
ListIssues ==
    /\ pc = "list"
    /\ \E failed \in BOOLEAN :
        IF failed THEN Goto("failed")
        ELSE /\ issue_keys' = [i \in 1..srvIssues |-> i]
             /\ rows' = << >>
             /\ pc' = "issues"
             /\ UNCHANGED <<sprint, sprint_start, sprint_end, key, issue, by_day, files>>
             /\ UNCHANGED <<cfgVars, calcVars, clientVars, getVars, srvVars>>

days == daterange(sprint_start, sprint_end)

\* Line 127: the loop over issue_keys has run out.
LoopDoneAnytime == TRUE
LoopDone == key = Len(issue_keys)

\* Lines 128-169 for the next key: the fetch, then every day of the sprint.
\* The server answers with any issue resource: created on any day, changed
\* up to MaxChanges times, with any points value.
ProcessIssue ==
    /\ pc = "issues" /\ key < Len(issue_keys)
    /\ \E failed \in BOOLEAN :
        IF failed THEN Goto("failed")
        ELSE
        \E c \in Days, n \in 0..MaxChanges, raw \in PointsValues,
           badCreated \in BOOLEAN, badHistory \in BOOLEAN :
            LET data == IssueResource(issue_keys[key + 1], c, n, raw, badCreated, badHistory)
                fields == data.fields
                points == ParsePoints(fields.points)
                hs == data.histories
                ok == IsoOk(fields.created) /\ HistoriesOk(hs)
                created_date == iso_to_date(fields.created)
                hit == first_date_reaching_status(hs, UAT_STATUS_NAME)
                new == IssueRows(data.key, points, fields.status.name, hs, created_date, hit,
                                 days, TREAT_UAT_AS_DONE_PERMANENT, TRACK_STATUS_NAMES)
            IN  \* a malformed date is tried on one issue resource of each length
                /\ (badHistory => n > 0 /\ ~badCreated)
                /\ (badCreated \/ badHistory) => (c = 1 /\ raw.kind = "num")
                /\ issue' = [key |-> data.key, fields |-> fields]
                /\ histories' = hs
                /\ sp' = points
                /\ initial_status' = fields.status.name
                /\ IF ok
                   THEN /\ hit_uat_on' = hit
                        /\ rows' = rows \o new
                        /\ key' = key + 1
                        /\ srvCreated' = Append(srvCreated, created_date)
                        /\ IF days # << >>
                           THEN day' = days[Len(days)]
                           ELSE UNCHANGED day
                        /\ IF Len(rows') > Len(rows)
                           THEN /\ status_today' = rows'[Len(rows')].status
                                /\ remain' = rows'[Len(rows')].remaining_for_issue
                           ELSE UNCHANGED <<status_today, remain>>
                        /\ UNCHANGED pc
                   ELSE /\ pc' = "failed"
                        /\ UNCHANGED <<hit_uat_on, rows, key, srvCreated, day, status_today, remain>>
                /\ UNCHANGED <<sprint, sprint_start, sprint_end, issue_keys, by_day, files>>
                /\ UNCHANGED <<cfgVars, clientVars, getVars, srvIssues, srvHist>>

\* Lines 171-182: aggregate per day, then write the daily-totals file.
WriteTotals ==
    /\ pc = "issues" /\ LoopDone
    /\ by_day' = Aggregated(<< >>, rows)
    /\ files' = Append(files, [name |-> "remaining", table |-> TotalsTable(by_day')])
    /\ pc' = "write2"
    /\ UNCHANGED <<sprint, sprint_start, sprint_end, issue_keys, key, issue, rows>>
    /\ UNCHANGED <<cfgVars, calcVars, clientVars, getVars, srvVars>>

\* Lines 185-193.
WriteDetails ==
    /\ pc = "write2"
    /\ files' = Append(files, [name |-> "remaining_details", table |-> DetailsTable(rows)])
    /\ pc' = "done"
    /\ UNCHANGED <<sprint, sprint_start, sprint_end, issue_keys, key, issue, rows, by_day>>
    /\ UNCHANGED <<cfgVars, calcVars, clientVars, getVars, srvVars>>

Next ==
    \/ ConfigGuard
    \/ FetchSprint
    \/ SprintBounds
    \/ ListIssues
    \/ ProcessIssue
    \/ WriteTotals
    \/ WriteDetails

Spec == Init /\ [][Next]_vars

\* ------------------------------------------------------ claims on main
TotalsFile == files[1].table
DetailsFile == files[2].table
SprintDays == sprint_start..sprint_end
RowsOn(rs, d) == {i \in 1..Len(rs) : rs[i].date = d}
RowsOf(rs, k, d) == {i \in 1..Len(rs) : rs[i].issue = k /\ rs[i].date = d}

RECURSIVE SumRemaining(_, _)
SumRemaining(rs, I) ==
    IF I = {} THEN 0
    ELSE LET i == CHOOSE x \in I : TRUE
         IN  rs[i].remaining_for_issue + SumRemaining(rs, I \ {i})

\* --- C1 ---------------------------------------------------------------
\* C1: once the daily-totals file is written, every day of the sprint
\* (start <= end) has exactly one line in it, whatever the issue list; a day
\* on which no issue contributes has the total 0.00.
C1_EveryDayInTotals ==
    (pc \in {"write2", "done"} /\ sprint_start <= sprint_end) =>
        \A d \in SprintDays :
            /\ Cardinality(RowsOn(TotalsFile, d)) = 1
            /\ SumRemaining(rows, RowsOn(rows, d)) = 0 =>
                   \A i \in RowsOn(TotalsFile, d) :
                       TotalsFile[i].remaining_story_points = Format2(0)

\* --- C4 ---------------------------------------------------------------
\* C4: for an issue with at least one status change, the status recorded
\* for a day before the first change is the status the issue held before
\* that change (the status the first change leaves).
C4_StatusBeforeFirstChange ==
    (key >= 1 /\ pc \in {"issues", "write2", "done"}) =>
        LET ev == extract_status_changes(histories)
        IN  ev # << >> =>
                \A i \in 1..Len(rows) :
                    (rows[i].issue = issue.key /\ rows[i].date < ev[1].d) =>
                        rows[i].status = ev[1].from

\* --- C5 ---------------------------------------------------------------
\* The days on which an issue created on day c has a record.
RecordDays(c) == {d \in SprintDays : d >= c}
ExactlyItsDays(rs) ==
    /\ \A i \in 1..Len(rs) : rs[i].issue \in 1..key
    /\ \A k \in 1..key :
        /\ \A d \in RecordDays(srvCreated[k]) : Cardinality(RowsOf(rs, k, d)) = 1
        /\ \A i \in 1..Len(rs) : rs[i].issue = k => rs[i].date \in RecordDays(srvCreated[k])

\* C5: every processed issue has exactly one record for each day from
\* max(creation date, sprint start) to the sprint end and no other record,
\* in main's rows and in the details file.
C5_RecordsPerIssue ==
    /\ pc \in {"issues", "write2", "done", "failed"} => ExactlyItsDays(rows)
    /\ pc = "done" => ExactlyItsDays(DetailsFile)

\* An issue created inside the sprint, after its first day.
C5_Witness ==
    /\ pc = "done"
    /\ \E k \in 1..key :
        /\ sprint_start < srvCreated[k] /\ srvCreated[k] <= sprint_end
        /\ Cardinality({i \in 1..Len(DetailsFile) : DetailsFile[i].issue = k})
               = sprint_end - srvCreated[k] + 1

\* --- C6 ---------------------------------------------------------------
\* C6: each line of the daily-totals file carries the sum of
\* remaining_for_issue over the details records of its date.
C6_TotalIsSum ==
    pc = "done" =>
        \A i \in 1..Len(TotalsFile) :
            TotalsFile[i].remaining_story_points
                = Format2(SumRemaining(DetailsFile, RowsOn(DetailsFile, TotalsFile[i].date)))

\* A day on which two issues both have points remaining.
C6_Witness ==
    /\ pc = "done"
    /\ \E i \in 1..Len(TotalsFile) :
        /\ TotalsFile[i].remaining_story_points = Format2(6)
        /\ Cardinality({j \in RowsOn(DetailsFile, TotalsFile[i].date) :
                            DetailsFile[j].remaining_for_issue > 0}) = 2

\* --- C8 ---------------------------------------------------------------
\* C8: a run that ends in a fatal error has written no file, and a file is
\* written only after the sprint, the issue list and every issue have been
\* fetched and computed.
C8_NoFileOnFailure ==
    /\ pc \in {"failed", "exit2"} => files = << >>
    /\ files # << >> =>
        /\ pc \in {"write2", "done"}
        /\ key = Len(issue_keys) /\ Len(issue_keys) = srvIssues
        /\ Len(srvCreated) = srvIssues

\* A run that fails on a later issue after computing the rows of an earlier one.
C8_Witness ==
    /\ pc = "failed" /\ key >= 1 /\ key < Len(issue_keys)
    /\ rows # << >> /\ files = << >>

====
